---- MODULE Spec2Model ----
(***************************************************************************)
(* Model of the multi-node XAI client (blockscout-adapter/src/xai_client.py)*)
(*                                                                         *)
(* The client runs on one asyncio event loop: code between two awaits is   *)
(* atomic, so every action below is one such stretch of code.  The awaits  *)
(* are the HTTP calls (a probe, a request attempt), the monitor's sleep and *)
(* the awaits of __aenter__/__aexit__.                                      *)
(*                                                                         *)
(* last_check (a wall-clock timestamp) is not modelled; no control flow    *)
(* reads it.                                                                *)
(***************************************************************************)
EXTENDS Integers, Sequences, FiniteSets, TLC

VARIABLES
    node_urls,              \* config.node_urls: the configured endpoints, in order
    load_balance_strategy,  \* config.load_balance_strategy
    nodes,                  \* self._nodes: url -> NodeHealth
    current_index,          \* self._current_index
    client,                 \* self._client: "None", "open" or "closed"
    health_check_task,      \* self._health_check_task: "None", "sleep", "round", "cancelled"
    probes,                 \* urls whose _check_node_health is awaiting its HTTP reply
    lifecycle,              \* where __aenter__/__aexit__ stand
    calls,                  \* caller -> the _request coroutine it runs
    hist,                   \* history (not program state): url -> what happened to the record
    picked,                 \* history: round-robin primaries since the healthy set last changed
    rpc,                    \* the RPCHandler of the adapter and the request it handles
    orphans                 \* history: monitor tasks still running that
                            \* self._health_check_task no longer refers to

vars == <<node_urls, load_balance_strategy, nodes, current_index, client,
          health_check_task, probes, lifecycle, calls, hist, picked, rpc,
          orphans>>

-----------------------------------------------------------------------------
(* Bounds and inputs *)

\* Failure transitions are explored while consecutive_failures stays <= MaxFailures.
MaxFailures == 4

\* A caller makes at most MaxReads status reads in a row.
MaxReads == 2

\* __aenter__ is called again on a started client while fewer than
\* MaxOrphans monitor tasks have lost their reference.
MaxOrphans == 1

\* mark_failure: "if self.consecutive_failures >= 3"
FailureThreshold == 3

\* NodeHealth.response_time_ms default
DefaultResponseTime == 0

\* NodeHealth.chain_height default, and data.get("chain_height", 0)
DefaultChainHeight == 0

Strategies == {"round_robin", "fastest", "random", "first_healthy"}

Range(s) == {s[i] : i \in 1..Len(s)}

-----------------------------------------------------------------------------
(* NodeHealth *)

\* a record created without its endpoint
NodeHealth_anonymous(url) ==
    [url |-> "",
     is_healthy |-> TRUE,
     consecutive_failures |-> 0,
     response_time_ms |-> DefaultResponseTime,
     chain_height |-> DefaultChainHeight,
     last_error |-> ""]

NodeHealth(url) ==
    [url |-> url,
     is_healthy |-> TRUE,
     consecutive_failures |-> 0,
     response_time_ms |-> DefaultResponseTime,
     chain_height |-> DefaultChainHeight,
     last_error |-> ""]

\* mark_success without "self.consecutive_failures = 0"
mark_success_keeps_count(node, response_time_ms, chain_height) ==
    [node EXCEPT !.is_healthy = TRUE,
                 !.response_time_ms = response_time_ms,
                 !.chain_height = IF chain_height > 0 THEN chain_height ELSE @,
                 !.last_error = ""]

\* mark_success without "self.is_healthy = True"
mark_success_stays_unhealthy(node, response_time_ms, chain_height) ==
    [node EXCEPT !.consecutive_failures = 0,
                 !.response_time_ms = response_time_ms,
                 !.chain_height = IF chain_height > 0 THEN chain_height ELSE @,
                 !.last_error = ""]

\* mark_success without "self.last_error = \"\""
mark_success_keeps_error(node, response_time_ms, chain_height) ==
    [node EXCEPT !.is_healthy = TRUE,
                 !.consecutive_failures = 0,
                 !.response_time_ms = response_time_ms,
                 !.chain_height = IF chain_height > 0 THEN chain_height ELSE @]

mark_success(node, response_time_ms, chain_height) ==
    [node EXCEPT !.is_healthy = TRUE,
                 !.consecutive_failures = 0,
                 !.response_time_ms = response_time_ms,
                 !.chain_height = IF chain_height > 0 THEN chain_height ELSE @,
                 !.last_error = ""]

\* mark_failure with "> 3" for ">= 3"
mark_failure_late(node, error) ==
    LET failures == node.consecutive_failures + 1
    IN  [node EXCEPT !.consecutive_failures = failures,
                     !.last_error = error,
                     !.is_healthy = IF failures > FailureThreshold THEN FALSE ELSE @]

mark_failure(node, error) ==
    LET failures == node.consecutive_failures + 1
    IN  [node EXCEPT !.consecutive_failures = failures,
                     !.last_error = error,
                     !.is_healthy = IF failures >= FailureThreshold THEN FALSE ELSE @]

\* History of one record: the transitions applied to it.
NoHistory ==
    [streak |-> 0,           \* failure transitions since the last success transition
     last |-> "none",        \* the last transition: "none", "success", "failure"
     was_healthy |-> TRUE,   \* is_healthy just before the last transition
     ever_success |-> FALSE, \* some success transition has been applied
     probed |-> FALSE,       \* some probe of the record's endpoint has completed
     abandoned |-> FALSE]    \* a probe of the endpoint was cancelled in flight

hist_success(h, node) ==
    [streak |-> 0, last |-> "success", was_healthy |-> node.is_healthy,
     ever_success |-> TRUE, probed |-> h.probed, abandoned |-> h.abandoned]

\* The history after a probe's transition(s).
hist_probed(h) == [h EXCEPT !.probed = TRUE]

hist_failure(h, node) ==
    [h EXCEPT !.streak = @ + 1, !.last = "failure", !.was_healthy = node.is_healthy]

-----------------------------------------------------------------------------
(* NodeSelector: _select_node and _get_ordered_nodes *)

\* [n for n in self._nodes.values() if n.is_healthy]: dict order is configured order
healthy_nodes == SelectSeq(node_urls, LAMBDA u : nodes[u].is_healthy)

\* a scan that keeps the last minimum
RECURSIVE min_scan_last(_, _, _)
min_scan_last(seq, i, best) ==
    IF i > Len(seq) THEN best
    ELSE min_scan_last(seq, i + 1,
                       IF nodes[seq[i]].response_time_ms <= nodes[best].response_time_ms
                       THEN seq[i] ELSE best)

\* min(healthy_nodes, key=...): a left-to-right scan that keeps the first minimum
RECURSIVE min_scan(_, _, _)
min_scan(seq, i, best) ==
    IF i > Len(seq) THEN best
    ELSE min_scan(seq, i + 1,
                  IF nodes[seq[i]].response_time_ms < nodes[best].response_time_ms
                  THEN seq[i] ELSE best)

fastest_node(seq) == min_scan(seq, 2, seq[1])

\* an unrecognized strategy that picks the last healthy endpoint
last_healthy(seq) == seq[Len(seq)]

\* else: return healthy_nodes[0].url
first_healthy(seq) == seq[1]

\* a cursor that advances under every strategy
next_index_always ==
    IF healthy_nodes # <<>>
    THEN (current_index + 1) % Len(healthy_nodes)
    ELSE current_index

\* a cursor that advances by two
next_index_skips ==
    IF healthy_nodes # <<>> /\ load_balance_strategy = "round_robin"
    THEN (current_index + 2) % Len(healthy_nodes)
    ELSE current_index

\* The cursor after a selection (only round_robin with a healthy node moves it).
next_index ==
    IF healthy_nodes # <<>> /\ load_balance_strategy = "round_robin"
    THEN (current_index + 1) % Len(healthy_nodes)
    ELSE current_index

\* a round-robin that indexes the configured endpoints, healthy or not
select_node_any_record(pick) ==
    IF healthy_nodes = <<>> THEN node_urls[1]
    ELSE IF load_balance_strategy = "round_robin" THEN node_urls[next_index + 1]
    ELSE IF load_balance_strategy = "fastest" THEN fastest_node(healthy_nodes)
    ELSE IF load_balance_strategy = "random" THEN healthy_nodes[pick]
    ELSE first_healthy(healthy_nodes)

\* _select_node; pick is random.choice's draw, a position of healthy_nodes.
select_node(pick) ==
    IF healthy_nodes = <<>> THEN node_urls[1]
    ELSE IF load_balance_strategy = "round_robin" THEN healthy_nodes[next_index + 1]
    ELSE IF load_balance_strategy = "fastest" THEN fastest_node(healthy_nodes)
    ELSE IF load_balance_strategy = "random" THEN healthy_nodes[pick]
    ELSE first_healthy(healthy_nodes)

\* The draws random.choice can make (one dummy draw when it is not called).
Picks ==
    IF healthy_nodes # <<>> /\ load_balance_strategy = "random"
    THEN 1..Len(healthy_nodes) ELSE {1}

\* the unhealthy endpoints ahead of the healthy ones
get_ordered_nodes_unhealthy_first(pick) ==
    LET selected == select_node(pick)
        healthy == SelectSeq(node_urls,
                             LAMBDA u : nodes[u].is_healthy /\ u # selected)
        unhealthy == SelectSeq(node_urls, LAMBDA u : ~nodes[u].is_healthy)
    IN  <<selected>> \o unhealthy \o healthy

\* a list with the selected endpoint only
get_ordered_nodes_no_failover(pick) == <<select_node(pick)>>

get_ordered_nodes(pick) ==
    LET selected == select_node(pick)
        healthy == SelectSeq(node_urls,
                             LAMBDA u : nodes[u].is_healthy /\ u # selected)
        unhealthy == SelectSeq(node_urls, LAMBDA u : ~nodes[u].is_healthy)
    IN  <<selected>> \o healthy \o unhealthy

-----------------------------------------------------------------------------
(* Construction: XAIClient.__init__ *)

\* RPCHandler.__init__ (chain_id = 1337, self._chain_height = 0), no request
\* being handled.
ChainId == 1337

NoRpc ==
    [pc |-> "idle", method |-> "None", id |-> 0, chain_height |-> 0,
     client_calls |-> 0, method_outcome |-> "none", response |-> "None"]

IdleCall ==
    [pc |-> "idle", urls |-> <<>>, idx |-> 0, last_error |-> "None",
     log |-> <<>>, result |-> "None"]

Constructed(urls, strategy, callers) ==
    /\ node_urls = urls
    /\ load_balance_strategy = strategy
    /\ nodes = [u \in Range(urls) |-> NodeHealth(u)]
    /\ current_index = 0
    /\ client = "None"
    /\ health_check_task = "None"
    /\ probes = {}
    /\ lifecycle = "new"
    /\ calls = [c \in callers |-> IdleCall]
    /\ hist = [u \in Range(urls) |-> NoHistory]
    /\ picked = <<>>
    /\ rpc = NoRpc
    /\ orphans = 0

WithinBound(nd) == \A u \in DOMAIN nd : nd[u].consecutive_failures <= MaxFailures

-----------------------------------------------------------------------------
(* History of the selector *)

HealthySet(nd) == {u \in DOMAIN nd : nd[u].is_healthy}

\* picked after a selector call that chose `selected`: the last
\* Len(node_urls) + 1 round-robin primaries.
picked_select(selected) ==
    IF healthy_nodes # <<>> /\ load_balance_strategy = "round_robin"
    THEN LET all == Append(picked, selected)
             excess == Len(all) - (Len(node_urls) + 1)
         IN  IF excess > 0 THEN SubSeq(all, excess + 1, Len(all)) ELSE all
    ELSE picked

\* picked after the records changed from nodes to nd.
picked_marked(seq, nd) == IF HealthySet(nd) = HealthySet(nodes) THEN seq ELSE <<>>

-----------------------------------------------------------------------------
(* Lifecycle and HealthMonitor *)

\* __aenter__ up to its first await: the transport is created and the initial
\* round's probes are all in flight (asyncio.gather).
AEnter ==
    /\ lifecycle = "new"
    /\ client' = "open"
    /\ probes' = Range(node_urls)
    /\ lifecycle' = "entering"
    /\ UNCHANGED <<orphans, rpc, node_urls, load_balance_strategy, nodes, current_index,
                   health_check_task, calls, hist, picked>>

\* The monitor task self._health_check_task refers to is in its loop.
monitor_running == health_check_task \in {"sleep", "round"}

\* "self._health_check_task = asyncio.create_task(...)" overwrites the
\* reference; a task it referred to keeps running.
orphans_after_start == IF monitor_running THEN orphans + 1 ELSE orphans

\* __aenter__ called again on a started client whose monitor is asleep, up
\* to its first await: a new transport replaces the open one (which is not
\* closed) and the probes of another initial round are in flight.
AEnterAgain ==
    /\ lifecycle = "running"
    /\ health_check_task = "sleep"
    /\ orphans < MaxOrphans
    /\ client' = "open"
    /\ probes' = Range(node_urls)
    /\ lifecycle' = "entering"
    /\ UNCHANGED <<orphans, rpc, node_urls, load_balance_strategy, nodes, current_index,
                   health_check_task, calls, hist, picked>>

\* __aenter__ that does not await the initial round
AEnterReturns_early ==
    /\ lifecycle = "entering"
    /\ health_check_task' = "sleep"
    /\ lifecycle' = "running"
    /\ UNCHANGED <<orphans, rpc, node_urls, load_balance_strategy, nodes, current_index,
                   client, probes, calls, hist, picked>>

\* __aenter__ after the initial round: the monitor task is created.
AEnterReturns ==
    /\ lifecycle = "entering"
    /\ probes = {}
    /\ health_check_task' = "sleep"
    /\ orphans' = orphans_after_start
    /\ lifecycle' = "running"
    /\ UNCHANGED <<rpc, node_urls, load_balance_strategy, nodes, current_index,
                   client, probes, calls, hist, picked>>

\* _check_node_health: the reply arrived, raise_for_status and json() passed.
ProbeSucceeds(u, response_time, height) ==
    /\ u \in probes
    /\ nodes' = [nodes EXCEPT ![u] = mark_success(@, response_time, height)]
    /\ hist' = [hist EXCEPT ![u] = hist_probed(hist_success(@, nodes[u]))]
    /\ picked' = picked_marked(picked, nodes')
    /\ probes' = probes \ {u}
    /\ UNCHANGED <<orphans, rpc, node_urls, load_balance_strategy, current_index, client,
                   health_check_task, lifecycle, calls>>

\* _check_node_health: any Exception of the try block.
ProbeFails(u, error) ==
    /\ u \in probes
    /\ nodes' = [nodes EXCEPT ![u] = mark_failure(@, error)]
    /\ WithinBound(nodes')
    /\ hist' = [hist EXCEPT ![u] = hist_probed(hist_failure(@, nodes[u]))]
    /\ picked' = picked_marked(picked, nodes')
    /\ probes' = probes \ {u}
    /\ UNCHANGED <<orphans, rpc, node_urls, load_balance_strategy, current_index, client,
                   health_check_task, lifecycle, calls>>

\* _check_node_health: the reply parsed, but its "chain_height" is no number
\* (null, a string): mark_success has set is_healthy, consecutive_failures
\* and response_time_ms when "chain_height > 0" raises TypeError, and the
\* except clause runs mark_failure.
ProbeBadHeight(u, response_time) ==
    /\ u \in probes
    /\ LET partial == [nodes[u] EXCEPT !.is_healthy = TRUE,
                                       !.consecutive_failures = 0,
                                       !.response_time_ms = response_time]
       IN  /\ nodes' = [nodes EXCEPT ![u] = mark_failure(partial, "type")]
           /\ hist' = [hist EXCEPT ![u] =
                  hist_probed(hist_failure(hist_success(@, nodes[u]), partial))]
    /\ picked' = picked_marked(picked, nodes')
    /\ probes' = probes \ {u}
    /\ UNCHANGED <<orphans, rpc, node_urls, load_balance_strategy, current_index, client,
                   health_check_task, lifecycle, calls>>

\* _health_check_loop: asyncio.sleep returns and the round's probes start.
SleepEnds ==
    /\ health_check_task = "sleep"
    /\ health_check_task' = "round"
    /\ probes' = Range(node_urls)
    /\ UNCHANGED <<orphans, rpc, node_urls, load_balance_strategy, nodes, current_index,
                   client, lifecycle, calls, hist, picked>>

\* a loop body that runs once (no "while True")
RoundEnds_once ==
    /\ health_check_task = "round"
    /\ probes = {}
    /\ health_check_task' = "done"
    /\ UNCHANGED <<orphans, rpc, node_urls, load_balance_strategy, nodes, current_index,
                   client, probes, lifecycle, calls, hist, picked>>

\* a round that does not wait for its probes (no await of the gather)
RoundEnds_early ==
    /\ health_check_task = "round"
    /\ health_check_task' = "sleep"
    /\ UNCHANGED <<orphans, rpc, node_urls, load_balance_strategy, nodes, current_index,
                   client, probes, lifecycle, calls, hist, picked>>

\* _check_all_nodes_health: gather returns, the loop sleeps again.
RoundEnds ==
    /\ health_check_task = "round"
    /\ probes = {}
    /\ health_check_task' = "sleep"
    /\ UNCHANGED <<orphans, rpc, node_urls, load_balance_strategy, nodes, current_index,
                   client, probes, lifecycle, calls, hist, picked>>

\* __aexit__ without "self._health_check_task.cancel()"
AExitCancel_no_cancel ==
    /\ lifecycle = "running"
    /\ lifecycle' = "exiting"
    /\ UNCHANGED <<orphans, rpc, node_urls, load_balance_strategy, nodes, current_index,
                   client, health_check_task, probes, calls, hist, picked>>

\* __aexit__: cancel the monitor task and await it.  The CancelledError ends
\* the sleep, or the gather and with it every probe still in flight
\* (_check_node_health catches Exception, not CancelledError).
AExitCancel ==
    /\ lifecycle = "running"
    /\ health_check_task' = "cancelled"
    /\ probes' = {}
    /\ lifecycle' = "exiting"
    /\ hist' = [u \in DOMAIN hist |->
                   IF u \in probes THEN [hist[u] EXCEPT !.abandoned = TRUE] ELSE hist[u]]
    /\ UNCHANGED <<orphans, rpc, node_urls, load_balance_strategy, nodes, current_index,
                   client, calls, picked>>

\* A round of a monitor task that lost its reference, after the transport
\* was closed: its sleep returns, every probe's self._client.get raises at
\* once (RuntimeError), so the round marks every record failed without
\* suspending, and the loop sleeps again.
OrphanRound ==
    /\ orphans > 0
    /\ client = "closed"
    /\ nodes' = [u \in DOMAIN nodes |-> mark_failure(nodes[u], "closed")]
    /\ hist' = [u \in DOMAIN hist |-> hist_probed(hist_failure(hist[u], nodes[u]))]
    /\ WithinBound(nodes')
    /\ picked' = picked_marked(picked, nodes')
    /\ UNCHANGED <<orphans, rpc, node_urls, load_balance_strategy, current_index, client,
                   health_check_task, probes, lifecycle, calls>>

\* __aexit__ that releases the transport before the monitor is cancelled
AExitClose_first ==
    /\ lifecycle \in {"running", "exiting"}
    /\ client' = "closed"
    /\ lifecycle' = "closed"
    /\ UNCHANGED <<orphans, rpc, node_urls, load_balance_strategy, nodes, current_index,
                   health_check_task, probes, calls, hist, picked>>

\* __aexit__ that cancels the requests in flight with the transport
AExitClose_cancels_requests ==
    /\ lifecycle = "exiting"
    /\ client' = "closed"
    /\ lifecycle' = "closed"
    /\ calls' = [c \in DOMAIN calls |->
                    IF calls[c].pc = "await"
                    THEN [calls[c] EXCEPT !.pc = "raised", !.last_error = "cancelled",
                                          !.result = "cancelled"]
                    ELSE calls[c]]
    /\ UNCHANGED <<orphans, rpc, node_urls, load_balance_strategy, nodes, current_index,
                   health_check_task, probes, hist, picked>>

\* __aexit__: self._client.aclose()
AExitClose ==
    /\ lifecycle = "exiting"
    /\ client' = "closed"
    /\ lifecycle' = "closed"
    /\ UNCHANGED <<orphans, rpc, node_urls, load_balance_strategy, nodes, current_index,
                   health_check_task, probes, calls, hist, picked>>

-----------------------------------------------------------------------------
(* ResilientRequestExecutor: XAIClient._request *)

\* What self._client.get raises without awaiting when there is no usable
\* transport: AttributeError on None, RuntimeError on a closed client.
NoTransportError == IF client = "None" THEN "no_client" ELSE "closed"

\* last_error set by the first except clause only
caught_keeps_first(last_error, e) == IF last_error = "None" THEN e ELSE last_error

\* an except clause that does not keep the exception
caught_nothing(last_error, e) == last_error

\* except Exception as e: last_error = e
caught(last_error, e) == e

\* The attempts urls[i..] of a walk that never suspends: each raises `error`
\* at once and is marked failed.  Returns the records, the history, the
\* log and last_error.
RECURSIVE fail_rest(_, _, _, _, _, _, _)
fail_rest(nd, hs, log, last_error, urls, i, error) ==
    IF i > Len(urls)
    THEN [nodes |-> nd, hist |-> hs, log |-> log, last_error |-> last_error]
    ELSE fail_rest([nd EXCEPT ![urls[i]] = mark_failure(@, error)],
                   [hs EXCEPT ![urls[i]] = hist_failure(@, nd[urls[i]])],
                   Append(log, [url |-> urls[i], outcome |-> "error", error |-> error]),
                   caught(last_error, error), urls, i + 1, error)

\* a walk that does not return at the first success
walk_never_stops(outcome) == TRUE

\* Whether the for loop goes on after an attempt with this outcome
\* ("ok": return response.json(); anything else: except ... continue).
walk_continues(outcome) == outcome # "ok"

\* a walk that asks the selector again before each attempt
walk_urls_reselected(call) == get_ordered_nodes(1)

\* "for url in urls" iterates the list bound when _request started.
walk_urls(call) == call.urls

\* The call after the attempt at position calls[c].idx ended with `outcome`
\* (nd and hs: the records and the history with that attempt's marks applied);
\* sets calls', nodes', hist' and picked'.
AfterAttempt(c, outcome, error, nd, hs) ==
    LET call == calls[c]
        url == call.urls[call.idx]
        log == Append(call.log, [url |-> url, outcome |-> outcome, error |-> error])
    IN  IF ~walk_continues(outcome)
        THEN \* return response.json()
             /\ calls' = [calls EXCEPT ![c] =
                    [call EXCEPT !.pc = "returned", !.log = log, !.result = url]]
             /\ nodes' = nd
             /\ hist' = hs
             /\ picked' = picked_marked(picked, nd)
        ELSE IF client = "open" /\ call.idx < Len(call.urls)
        THEN \* continue: the next attempt awaits its reply
             /\ calls' = [calls EXCEPT ![c] =
                    [call EXCEPT !.idx = @ + 1, !.log = log,
                                 !.urls = walk_urls(call),
                                 !.last_error = caught(@, error)]]
             /\ nodes' = nd
             /\ hist' = hs
             /\ picked' = picked_marked(picked, nd)
        ELSE \* the remaining attempts (if any) raise at once; raise last_error
             LET rest == fail_rest(nd, hs, log, caught(call.last_error, error),
                                   call.urls, call.idx + 1, NoTransportError)
             IN  /\ calls' = [calls EXCEPT ![c] =
                        [call EXCEPT !.pc = "raised", !.idx = Len(call.urls),
                                     !.log = rest.log,
                                     !.last_error = rest.last_error,
                                     !.result = rest.last_error]]
                 /\ nodes' = rest.nodes
                 /\ hist' = rest.hist
                 /\ picked' = picked_marked(picked, rest.nodes)

\* _request up to its first await: the ordered list is fixed, the first
\* attempt is in flight.
Request(c, pick) ==
    /\ calls[c].pc = "idle"
    /\ node_urls # <<>>
    /\ client = "open"
    /\ calls' = [calls EXCEPT ![c] =
           [IdleCall EXCEPT !.pc = "await", !.urls = get_ordered_nodes(pick), !.idx = 1]]
    /\ current_index' = next_index
    /\ picked' = picked_select(select_node(pick))
    /\ UNCHANGED <<orphans, rpc, node_urls, load_balance_strategy, nodes, client,
                   health_check_task, probes, lifecycle, hist>>

\* _request without a usable transport: no attempt suspends, the whole walk
\* is one atomic step.
RequestNoTransport(c, pick) ==
    /\ calls[c].pc = "idle"
    /\ node_urls # <<>>
    /\ client # "open"
    /\ LET urls == get_ordered_nodes(pick)
           rest == fail_rest(nodes, hist, <<>>, "None", urls, 1, NoTransportError)
       IN  /\ calls' = [calls EXCEPT ![c] =
                  [IdleCall EXCEPT !.pc = "raised", !.urls = urls, !.idx = Len(urls),
                                   !.log = rest.log,
                                   !.last_error = rest.last_error,
                                   !.result = rest.last_error]]
           /\ nodes' = rest.nodes
           /\ hist' = rest.hist
    /\ WithinBound(nodes')
    /\ current_index' = next_index
    /\ picked' = picked_marked(picked_select(select_node(pick)), nodes')
    /\ UNCHANGED <<orphans, rpc, node_urls, load_balance_strategy, client,
                   health_check_task, probes, lifecycle>>

\* _request of a client configured with no endpoint: _select_node finds no
\* healthy record and "self.config.node_urls[0]" raises IndexError, outside
\* the try block, so the call raises it before any attempt.
RequestNoNodes(c) ==
    /\ calls[c].pc = "idle"
    /\ node_urls = <<>>
    /\ calls' = [calls EXCEPT ![c] =
           [IdleCall EXCEPT !.pc = "raised", !.last_error = "IndexError",
                            !.result = "IndexError"]]
    /\ UNCHANGED <<orphans, rpc, node_urls, load_balance_strategy, nodes, current_index, client,
                   health_check_task, probes, lifecycle, hist, picked>>

\* The reply arrived, raise_for_status passed, response.json() parsed.
AttemptSucceeds(c, response_time) ==
    /\ calls[c].pc = "await"
    /\ LET url == calls[c].urls[calls[c].idx]
       IN  AfterAttempt(c, "ok", "None",
               [nodes EXCEPT ![url] = mark_success(@, response_time, DefaultChainHeight)],
               [hist EXCEPT ![url] = hist_success(@, nodes[url])])
    /\ UNCHANGED <<orphans, rpc, node_urls, load_balance_strategy, current_index, client,
                   health_check_task, probes, lifecycle>>

\* The get/post or raise_for_status raised: timeout, connection error, status.
AttemptFails(c, error) ==
    /\ calls[c].pc = "await"
    /\ LET url == calls[c].urls[calls[c].idx]
       IN  AfterAttempt(c, "error", error,
               [nodes EXCEPT ![url] = mark_failure(@, error)],
               [hist EXCEPT ![url] = hist_failure(@, nodes[url])])
    /\ WithinBound(nodes')
    /\ UNCHANGED <<orphans, rpc, node_urls, load_balance_strategy, current_index, client,
                   health_check_task, probes, lifecycle>>

\* The reply had a success status but response.json() raised: mark_success
\* has already run (line 206) when the except clause runs mark_failure.
AttemptBadJson(c, response_time) ==
    /\ calls[c].pc = "await"
    /\ LET url == calls[c].urls[calls[c].idx]
           ok == mark_success(nodes[url], response_time, DefaultChainHeight)
       IN  AfterAttempt(c, "bad_json", "json",
               [nodes EXCEPT ![url] = mark_failure(ok, "json")],
               [hist EXCEPT ![url] = hist_failure(hist_success(@, nodes[url]), ok)])
    /\ WithinBound(nodes')
    /\ UNCHANGED <<orphans, rpc, node_urls, load_balance_strategy, current_index, client,
                   health_check_task, probes, lifecycle>>

-----------------------------------------------------------------------------
(* Health & status methods *)

\* round(node.response_time_ms, 2): latencies here are whole milliseconds,
\* which rounding to two decimals leaves as they are.
round2(x) == x

\* get_nodes_status: one entry per record, in the order of self._nodes
\* (last_check, a timestamp, is left out).
get_nodes_status ==
    [i \in 1..Len(node_urls) |->
        LET node == nodes[node_urls[i]]
        IN  [url |-> node.url,
             is_healthy |-> node.is_healthy,
             chain_height |-> node.chain_height,
             response_time_ms |-> round2(node.response_time_ms),
             consecutive_failures |-> node.consecutive_failures,
             last_error |-> node.last_error]]

\* a count of all records
get_node_count == Cardinality(DOMAIN nodes)

\* get_healthy_node_count: sum(1 for n in self._nodes.values() if n.is_healthy)
get_healthy_node_count == Cardinality({u \in DOMAIN nodes : nodes[u].is_healthy})

\* A caller reads get_nodes_status() and get_healthy_node_count() (as the
\* /nodes route does); neither awaits nor assigns.  idx counts the caller's
\* reads in a row.
StatusRead(c) ==
    /\ calls[c].pc \in {"idle", "status"}
    /\ calls[c].idx < MaxReads
    /\ calls' = [calls EXCEPT ![c] =
           [IdleCall EXCEPT !.pc = "status", !.idx = calls[c].idx + 1,
                            !.result = [nodes |-> get_nodes_status,
                                        healthy_count |-> get_healthy_node_count]]]
    /\ UNCHANGED <<orphans, rpc, node_urls, load_balance_strategy, nodes, current_index, client,
                   health_check_task, probes, lifecycle, hist, picked>>

\* The caller has taken the value or the exception.
CallEnds(c) ==
    /\ calls[c].pc \in {"returned", "raised", "status"}
    /\ calls' = [calls EXCEPT ![c] = IdleCall]
    /\ UNCHANGED <<orphans, rpc, node_urls, load_balance_strategy, nodes, current_index, client,
                   health_check_task, probes, lifecycle, hist, picked>>

-----------------------------------------------------------------------------
(* RPCHandler (rpc_handler.py) *)

\* error codes of RPCHandler.handle
MethodNotFound == -32601

ServerError == -32000

HexDigits == <<"0", "1", "2", "3", "4", "5", "6", "7", "8", "9",
               "a", "b", "c", "d", "e", "f">>

RECURSIVE hex_digits(_)
hex_digits(n) ==
    IF n < 16 THEN HexDigits[n + 1]
    ELSE hex_digits(n \div 16) \o HexDigits[(n % 16) + 1]

\* translators.utils.to_hex: hex(value), for value >= 0
to_hex(value) == "0x" \o hex_digits(value)

\* The routing table self._methods, one method of each sort: one that lets
\* the client's error through, one that makes no client call, one that
\* catches the client's error.
RoutedMethods == {"eth_blockNumber", "eth_chainId", "net_peerCount"}

\* What "method" of a request can be: a routed name, another name, or a JSON
\* array (main.json_rpc passes on body.get("method", "") as it is).
ListMethod == "[list]"

RequestMethods == RoutedMethods \cup {"eth_unknownMethod", ListMethod}

\* Whether "method not in self._methods" can hash the method.
hashable(method) == method # ListMethod

RpcIds == {1, 2}

\* the stats a node returned: with a chain_height, or without the key
StatsReplies == {[chain_height |-> 0], [chain_height |-> 1000], [peers |-> 0]}

\* error: dict = None
NoError == [code |-> 0, message |-> ""]

\* number of peers a node returned
PeerCounts == {0, 2}

RPCResponse(result, id, error) == [result |-> result, id |-> id, error |-> error]

\* error={"code": -32601, "message": f"Method not found: {method}"}
not_found(method) == [code |-> MethodNotFound, message |-> "Method not found"]

\* RPCHandler.handle up to its first suspension.  The routed methods that
\* call the client suspend in its _request, which is the caller "rpc"'s next
\* Request step.
Handle(method, id) ==
    /\ rpc.pc = "idle"
    /\ LET req == [rpc EXCEPT !.method = method, !.id = id, !.client_calls = 0,
                              !.method_outcome = "none", !.response = "None"]
       IN  rpc' =
             IF ~hashable(method)
             THEN \* "method not in self._methods" raises TypeError
                  [req EXCEPT !.pc = "raised", !.response = "TypeError"]
             ELSE IF method \notin RoutedMethods
             THEN [req EXCEPT !.pc = "responded",
                              !.response = RPCResponse("None", id, not_found(method))]
             ELSE IF method = "eth_chainId"
             THEN [req EXCEPT !.pc = "responded", !.method_outcome = "returned",
                              !.response = RPCResponse(to_hex(ChainId), id, NoError)]
             ELSE [req EXCEPT !.pc = "await", !.client_calls = 1]
    /\ UNCHANGED <<orphans, node_urls, load_balance_strategy, nodes, current_index, client,
                   health_check_task, probes, lifecycle, calls, hist, picked>>

\* The client's get_stats / get_peers returned; the routed method finishes
\* and handle returns its response.
RpcClientReturns(stats, peers) ==
    /\ rpc.pc = "await"
    /\ calls["rpc"].pc = "returned"
    /\ calls' = [calls EXCEPT !["rpc"] = IdleCall]
    /\ rpc' =
         IF rpc.method = "net_peerCount"
         THEN [rpc EXCEPT !.pc = "responded", !.method_outcome = "returned",
                          !.response = RPCResponse(to_hex(peers), rpc.id, NoError)]
         ELSE IF "chain_height" \notin DOMAIN stats
         THEN \* stats["chain_height"] raises KeyError
              [rpc EXCEPT !.pc = "responded", !.method_outcome = "raised",
                          !.response = RPCResponse("None", rpc.id,
                              [code |-> ServerError, message |-> "KeyError"])]
         ELSE [rpc EXCEPT !.pc = "responded", !.method_outcome = "returned",
                          !.chain_height = stats.chain_height,
                          !.response = RPCResponse(to_hex(stats.chain_height), rpc.id,
                                                   NoError)]
    /\ UNCHANGED <<orphans, node_urls, load_balance_strategy, nodes, current_index, client,
                   health_check_task, probes, lifecycle, hist, picked>>

\* The client's get_stats / get_peers raised.
RpcClientRaises ==
    /\ rpc.pc = "await"
    /\ calls["rpc"].pc = "raised"
    /\ calls' = [calls EXCEPT !["rpc"] = IdleCall]
    /\ rpc' =
         IF rpc.method = "net_peerCount"
         THEN \* except Exception: return to_hex(0)
              [rpc EXCEPT !.pc = "responded", !.method_outcome = "returned",
                          !.response = RPCResponse(to_hex(0), rpc.id, NoError)]
         ELSE [rpc EXCEPT !.pc = "responded", !.method_outcome = "raised",
                          !.response = RPCResponse("None", rpc.id,
                              [code |-> ServerError, message |-> calls["rpc"].result])]
    /\ UNCHANGED <<orphans, node_urls, load_balance_strategy, nodes, current_index, client,
                   health_check_task, probes, lifecycle, hist, picked>>

\* The route has taken handle's response or exception.
RpcEnds ==
    /\ rpc.pc \in {"responded", "raised"}
    /\ rpc' = [rpc EXCEPT !.pc = "idle"]
    /\ UNCHANGED <<orphans, node_urls, load_balance_strategy, nodes, current_index, client,
                   health_check_task, probes, lifecycle, calls, hist, picked>>

-----------------------------------------------------------------------------
(* Specifications *)

Urls2 == <<"A", "B">>

Latencies == {10}

Heights == {0, 1}

Errors == {"timeout"}

Next ==
    \/ AEnter
    \/ AEnterReturns
    \/ \E u \in Range(node_urls), t \in Latencies, h \in Heights : ProbeSucceeds(u, t, h)
    \/ \E u \in Range(node_urls), e \in Errors : ProbeFails(u, e)
    \/ \E u \in Range(node_urls), t \in Latencies : ProbeBadHeight(u, t)
    \/ SleepEnds
    \/ RoundEnds
    \/ AExitCancel
    \/ AExitClose
    \/ \E c \in DOMAIN calls : \E pick \in Picks : Request(c, pick)
    \/ \E c \in DOMAIN calls : \E pick \in Picks : RequestNoTransport(c, pick)
    \/ \E c \in DOMAIN calls, t \in Latencies : AttemptSucceeds(c, t)
    \/ \E c \in DOMAIN calls, e \in Errors : AttemptFails(c, e)
    \/ \E c \in DOMAIN calls, t \in Latencies : AttemptBadJson(c, t)
    \/ \E c \in DOMAIN calls : CallEnds(c)

\* The client from construction, one caller, every strategy.
Init == \E strategy \in Strategies : Constructed(Urls2, strategy, {"c1"})

Spec == Init /\ [][Next]_vars

\* The attempt caller c awaits completes, with whatever outcome.
AttemptCompletes(c) ==
    \/ \E t \in Latencies : AttemptSucceeds(c, t)
    \/ \E e \in Errors : AttemptFails(c, e)
    \/ \E t \in Latencies : AttemptBadJson(c, t)

\* One caller of a client from construction to stop, with the progress the
\* event loop and the network give: every network attempt of a request
\* completes (at the latest by its timeout), and __aexit__, whose await of
\* the cancelled monitor task has returned, goes on to aclose().
InitLive == Constructed(Urls2, "random", {"c1"})

NextLive ==
    \/ AEnter
    \/ AEnterReturns
    \/ \E u \in Range(node_urls), t \in Latencies : ProbeSucceeds(u, t, DefaultChainHeight)
    \/ \E u \in Range(node_urls), e \in Errors : ProbeFails(u, e)
    \/ SleepEnds
    \/ RoundEnds
    \/ AExitCancel
    \/ AExitClose
    \/ \E pick \in Picks : Request("c1", pick)
    \/ \E pick \in Picks : RequestNoTransport("c1", pick)
    \/ AttemptCompletes("c1")
    \/ CallEnds("c1")

SpecLive ==
    /\ InitLive
    /\ [][NextLive]_vars
    /\ WF_vars(AExitClose)
    /\ WF_vars(AttemptCompletes("c1"))

\* The probe of u in flight completes, with whatever outcome.
ProbeCompletes(u) ==
    \/ \E t \in Latencies, h \in Heights : ProbeSucceeds(u, t, h)
    \/ \E e \in Errors : ProbeFails(u, e)
    \/ \E t \in Latencies : ProbeBadHeight(u, t)

\* A client whose start may be called again while it runs, and its stop.
\* The monitor's sleep (30 s by default) is taken not to end during the
\* initial round of a second start, and a monitor that lost its reference
\* is followed only once the transport is closed.
NextRestart ==
    \/ AEnter
    \/ AEnterAgain
    \/ AEnterReturns
    \/ \E u \in Range(node_urls) : ProbeCompletes(u)
    \/ lifecycle = "running" /\ SleepEnds
    \/ RoundEnds
    \/ AExitCancel
    \/ AExitClose
    \/ OrphanRound

SpecRestart == InitLive /\ [][NextRestart]_vars

\* A client that is started and not stopped, with one caller, and the
\* progress the event loop gives its monitor: asyncio.sleep(interval)
\* returns, every probe completes (at the latest by its 5 s timeout), and
\* the gather of a round whose probes are done returns.
NextMonitor ==
    \/ AEnter
    \/ AEnterReturns
    \/ \E u \in Range(node_urls) : ProbeCompletes(u)
    \/ SleepEnds
    \/ RoundEnds
    \/ \E pick \in Picks : Request("c1", pick)
    \/ AttemptCompletes("c1")
    \/ CallEnds("c1")

SpecMonitor ==
    /\ InitLive
    /\ [][NextMonitor]_vars
    /\ WF_vars(SleepEnds)
    /\ WF_vars(RoundEnds)
    /\ \A u \in Range(Urls2) : WF_vars(ProbeCompletes(u))

\* One caller that makes requests and reads the status of a client from
\* construction to stop.
NextStatus ==
    \/ AEnter
    \/ AEnterReturns
    \/ \E u \in Range(node_urls), t \in Latencies, h \in Heights : ProbeSucceeds(u, t, h)
    \/ \E u \in Range(node_urls), e \in Errors : ProbeFails(u, e)
    \/ SleepEnds
    \/ RoundEnds
    \/ AExitCancel
    \/ AExitClose
    \/ \E pick \in Picks : Request("c1", pick)
    \/ AttemptCompletes("c1")
    \/ StatusRead("c1")
    \/ CallEnds("c1")

SpecStatus == InitLive /\ [][NextStatus]_vars

\* The adapter: a started client (default strategy) whose only caller is the
\* RPCHandler, handling one request at a time.
InitRpc == Constructed(Urls2, "fastest", {"rpc"})

NextRpc ==
    \/ AEnter
    \/ AEnterReturns
    \/ \E u \in Range(node_urls), t \in Latencies : ProbeSucceeds(u, t, DefaultChainHeight)
    \/ \E u \in Range(node_urls), e \in Errors : ProbeFails(u, e)
    \/ \E method \in RequestMethods, id \in RpcIds : lifecycle = "running" /\ Handle(method, id)
    \/ \E pick \in Picks : rpc.pc = "await" /\ Request("rpc", pick)
    \/ AttemptCompletes("rpc")
    \/ \E stats \in StatsReplies, peers \in PeerCounts : RpcClientReturns(stats, peers)
    \/ RpcClientRaises
    \/ RpcEnds

SpecRpc == InitRpc /\ [][NextRpc]_vars

\* Two concurrent callers of a client that is started and not stopped.
\* Under "random" the primary is any healthy endpoint, so the ordered lists
\* of the other strategies all occur.
InitConcurrent == Constructed(Urls2, "random", {"c1", "c2"})

NextConcurrent ==
    \/ AEnter
    \/ AEnterReturns
    \/ \E u \in Range(node_urls), t \in Latencies : ProbeSucceeds(u, t, DefaultChainHeight)
    \/ \E u \in Range(node_urls), e \in Errors : ProbeFails(u, e)
    \/ \E u \in Range(node_urls), t \in Latencies : ProbeBadHeight(u, t)
    \/ SleepEnds
    \/ RoundEnds
    \/ \E c \in DOMAIN calls : \E pick \in Picks : Request(c, pick)
    \/ \E c \in DOMAIN calls, t \in Latencies : AttemptSucceeds(c, t)
    \/ \E c \in DOMAIN calls, e \in Errors : AttemptFails(c, e)
    \/ \E c \in DOMAIN calls, t \in Latencies : AttemptBadJson(c, t)
    \/ \E c \in DOMAIN calls : CallEnds(c)

SpecConcurrent == InitConcurrent /\ [][NextConcurrent]_vars

\* Concurrent callers of a started client with one endpoint whose probes and
\* request attempts always fail (whatever the cause) and one whose probes
\* and request attempts always succeed; either may be configured first.
FailingNode == "A"

AwaitsOn(c, failing) ==
    /\ calls[c].pc = "await"
    /\ (calls[c].urls[calls[c].idx] = FailingNode) = failing

InitFailover ==
    \E urls \in {<<"A", "B">>, <<"B", "A">>} : \E strategy \in Strategies :
        Constructed(urls, strategy, {"c1", "c2", "c3"})

NextFailover ==
    \/ AEnter
    \/ AEnterReturns
    \/ \E u \in Range(node_urls) \ {FailingNode}, t \in Latencies :
           ProbeSucceeds(u, t, DefaultChainHeight)
    \/ \E e \in Errors : ProbeFails(FailingNode, e)
    \/ SleepEnds
    \/ RoundEnds
    \/ \E c \in DOMAIN calls : \E pick \in Picks : Request(c, pick)
    \/ \E c \in DOMAIN calls, t \in Latencies : AwaitsOn(c, FALSE) /\ AttemptSucceeds(c, t)
    \/ \E c \in DOMAIN calls, e \in Errors : AwaitsOn(c, TRUE) /\ AttemptFails(c, e)
    \/ \E c \in DOMAIN calls, t \in Latencies : AwaitsOn(c, TRUE) /\ AttemptBadJson(c, t)
    \/ \E c \in DOMAIN calls : CallEnds(c)

SpecFailover == InitFailover /\ [][NextFailover]_vars

\* The configurations __init__ accepts besides the ones above: no endpoint,
\* a single endpoint; every strategy name.
Urls0 == <<>>

Urls1 == <<"A">>

InitConfig ==
    \E urls \in {Urls0, Urls1} : \E strategy \in Strategies :
        Constructed(urls, strategy, {"c1"})

NextConfig ==
    \/ Next
    \/ \E c \in DOMAIN calls : RequestNoNodes(c)

SpecConfig == InitConfig /\ [][NextConfig]_vars

-----------------------------------------------------------------------------
(* The selector on sampled health states of a started client *)

Urls3 == <<"A", "B", "C">>

SelectLatencies == {10, 30, 50}

\* Records a started client holds: every endpoint has been probed, so one
\* that never succeeded has failed at least once.
NeverSucceeded == {[ok |-> FALSE, failures |-> f, time |-> DefaultResponseTime] :
                       f \in {1, FailureThreshold}}

Succeeded == {[ok |-> TRUE, failures |-> f, time |-> t] :
                  f \in {0, FailureThreshold}, t \in SelectLatencies}

SampleNode(u, s) ==
    [url |-> u,
     is_healthy |-> s.failures < FailureThreshold,
     consecutive_failures |-> s.failures,
     response_time_ms |-> s.time,
     chain_height |-> DefaultChainHeight,
     last_error |-> IF s.failures = 0 THEN "" ELSE "timeout"]

SampleHistory(s) ==
    [streak |-> s.failures,
     last |-> IF s.failures = 0 THEN "success" ELSE "failure",
     was_healthy |-> TRUE,
     ever_success |-> s.ok,
     probed |-> TRUE,
     abandoned |-> FALSE]

\* The cursor is below the number of endpoints, and it has moved only if a
\* round-robin selection was made before the healthy set last changed.
SampleIndexes(strategy, sample) ==
    IF strategy = "round_robin"
       /\ \E u \in DOMAIN sample : sample[u].ok \/ sample[u].failures >= FailureThreshold
    THEN 0..(Len(Urls3) - 1) ELSE {0}

InitSelect ==
    \E strategy \in Strategies :
    \E sample \in [Range(Urls3) -> NeverSucceeded \cup Succeeded] :
    \E index \in SampleIndexes(strategy, sample) :
        /\ node_urls = Urls3
        /\ load_balance_strategy = strategy
        /\ nodes = [u \in Range(Urls3) |-> SampleNode(u, sample[u])]
        /\ current_index = index
        /\ client = "open"
        /\ health_check_task = "sleep"
        /\ probes = {}
        /\ lifecycle = "running"
        /\ calls = [c \in {"c1", "c2", "c3", "c4"} |-> IdleCall]
        /\ hist = [u \in Range(Urls3) |-> SampleHistory(sample[u])]
        /\ picked = <<>>
        /\ rpc = NoRpc
        /\ orphans = 0

\* Selector calls only: each caller starts one _request.
NextSelect == \E c \in DOMAIN calls : \E pick \in Picks : Request(c, pick)

SpecSelect == InitSelect /\ [][NextSelect]_vars

\* The attempt caller c awaits gets its reply and the call returns.
AttemptReturns(c) == \E t \in Latencies : AttemptSucceeds(c, t)

\* Round-robin over three endpoints with one caller that calls again and
\* again and whose attempts all succeed, while the monitor's probes succeed
\* or fail: every attempt completes, the caller takes its result and issues
\* its next request.
InitRoundRobin == Constructed(Urls3, "round_robin", {"c1"})

NextRoundRobin ==
    \/ AEnter
    \/ AEnterReturns
    \/ \E u \in Range(node_urls), t \in Latencies : ProbeSucceeds(u, t, DefaultChainHeight)
    \/ \E u \in Range(node_urls), e \in Errors : ProbeFails(u, e)
    \/ SleepEnds
    \/ RoundEnds
    \/ Request("c1", 1)
    \/ AttemptReturns("c1")
    \/ CallEnds("c1")

SpecRoundRobin ==
    /\ InitRoundRobin
    /\ [][NextRoundRobin]_vars
    /\ WF_vars(AEnter)
    /\ WF_vars(Request("c1", 1))
    /\ WF_vars(AttemptReturns("c1"))
    /\ WF_vars(CallEnds("c1"))

-----------------------------------------------------------------------------
(* NodeHealth: the health state machine *)

\* C1: counting a record's failure transitions since its last success
\* transition (or since its creation, consecutive_failures = 0): after one
\* or two the record is still healthy, from the third on it is unhealthy;
\* and a record whose last transition is a success is healthy with
\* consecutive_failures = 0, whatever it was before.
C1_ThreeFailuresOneSuccess ==
    \A u \in DOMAIN nodes :
        /\ hist[u].streak \in {1, 2} => nodes[u].is_healthy
        /\ hist[u].streak >= 3 => ~nodes[u].is_healthy
        /\ hist[u].last = "success" =>
               nodes[u].is_healthy /\ nodes[u].consecutive_failures = 0

\* A record was unhealthy (three failures) and one success restored it.
C1_Witness ==
    \E u \in DOMAIN nodes :
        /\ hist[u].last = "success"
        /\ ~hist[u].was_healthy
        /\ nodes[u].is_healthy

\* C2: in every state reached under interleaved requests of two callers and
\* probe rounds, each record is unhealthy exactly when its
\* consecutive_failures is at least 3, and the counter is never negative.
C2_HealthyIffBelowThreshold ==
    \A u \in DOMAIN nodes :
        /\ ~nodes[u].is_healthy <=> nodes[u].consecutive_failures >= 3
        /\ nodes[u].consecutive_failures >= 0

\* Both callers have an attempt in flight, a probe round is in flight, and a
\* record has become unhealthy.
C2_Witness ==
    /\ \A c \in DOMAIN calls : calls[c].pc = "await"
    /\ health_check_task = "round"
    /\ probes # {}
    /\ \E u \in DOMAIN nodes :
           ~nodes[u].is_healthy /\ nodes[u].consecutive_failures >= 3

-----------------------------------------------------------------------------
(* ResilientRequestExecutor: the failover walk *)

\* The step is a selector call of caller c (its _request starts).
Selects(c) == calls[c].pc = "idle" /\ calls'[c].pc # "idle"

\* The step completes the attempt of caller c that was awaiting its reply.
Attempted(c) == calls[c].pc = "await" /\ Len(calls'[c].log) > Len(calls[c].log)

C3_WalkInOrder ==
    \A c \in DOMAIN calls :
        LET call == calls[c]
            k == Len(call.log)
        IN  /\ call.pc # "idle" =>
                /\ k <= Len(call.urls)
                /\ \A i \in 1..k : call.log[i].url = call.urls[i]
                /\ \A i \in 1..k : call.log[i].outcome = "ok" =>
                       i = k /\ call.pc = "returned"
            /\ call.pc = "await" => call.idx = k + 1
            /\ call.pc = "returned" =>
                /\ k >= 1
                /\ call.log[k].outcome = "ok"
                /\ call.result = call.urls[k]

C3_MarksPerAttempt ==
    \A c \in DOMAIN calls :
        Attempted(c) =>
            LET i == calls[c].idx
                u == calls[c].urls[i]
                outcome == calls'[c].log[i].outcome
            IN  /\ outcome = "ok" =>
                    /\ nodes'[u].consecutive_failures = 0
                    /\ nodes'[u].is_healthy
                    /\ hist'[u].last = "success"
                    /\ \A v \in DOMAIN nodes : v # u => nodes'[v] = nodes[v]
                /\ outcome # "ok" =>
                    /\ hist'[u].last = "failure"
                    /\ hist'[u].streak >= 1
                    /\ Len(calls'[c].log) = i =>
                           nodes'[u].consecutive_failures =
                               IF outcome = "bad_json" THEN 1
                               ELSE nodes[u].consecutive_failures + 1

\* C3: a request attempts the endpoints of its ordered list strictly in
\* order (attempt i is on urls[i]) and returns at the first success: when
\* attempts 1..k-1 failed and attempt k succeeded it returns the response of
\* urls[k], each failed attempt applied a failure transition to its record,
\* attempt k applied the success transition, there is no attempt after
\* position k and the returning step changes no other record.
C3_FirstSuccessEndsWalk == []C3_WalkInOrder /\ [][C3_MarksPerAttempt]_vars

\* The first endpoint failed, the second succeeded and served the request.
C3_Witness ==
    \E c \in DOMAIN calls :
        /\ calls[c].pc = "returned"
        /\ calls[c].urls = <<"B", "A">>
        /\ Len(calls[c].log) = 2
        /\ calls[c].log[1].outcome = "error"
        /\ calls[c].result = "A"
        /\ hist["B"].last = "failure"
        /\ hist["A"].last = "success"

\* C4: a request raises only after every position of its ordered list has
\* been attempted, in order, and has failed; the error it raises is the
\* error of the last attempt.
C4_RaisesLastErrorAfterAll ==
    \A c \in DOMAIN calls :
        calls[c].pc = "raised" =>
            LET call == calls[c]
                k == Len(call.log)
            IN  /\ k = Len(call.urls)
                /\ \A i \in 1..k :
                       call.log[i].url = call.urls[i] /\ call.log[i].outcome # "ok"
                /\ call.result = call.log[k].error

\* Every endpoint failed with the transport open, the first and the last
\* with different errors.
C4_Witness ==
    \E c \in DOMAIN calls :
        /\ calls[c].pc = "raised"
        /\ client = "open"
        /\ calls[c].log[1].error = "json"
        /\ calls[c].log[Len(calls[c].log)].error = "timeout"
        /\ calls[c].result = "timeout"

\* C5: whenever a selector call finds no healthy record, the ordered list it
\* produces is the configured list: every endpoint, in configured order, once.
C5_AllUnhealthyFullList ==
    [][\A c \in DOMAIN calls :
           Selects(c) /\ healthy_nodes = <<>> => calls'[c].urls = node_urls]_vars

\* C6: one request attempts no endpoint twice, and applies at most one
\* failure transition to any record.
C6_OneAttemptPerEndpoint ==
    \A c \in DOMAIN calls :
        LET call == calls[c]
        IN  /\ \A i, j \in 1..call.idx : i # j => call.urls[i] # call.urls[j]
            /\ \A u \in DOMAIN nodes :
                   Cardinality({i \in DOMAIN call.log :
                       call.log[i].url = u /\ call.log[i].outcome # "ok"}) <= 1

\* C7: under "fastest", a selector call never makes a healthy record that
\* has had no success its primary while another healthy record has a
\* latency recorded by a success.
C7_UnmeasuredSortsLast ==
    [][\A c \in DOMAIN calls :
           Selects(c) /\ load_balance_strategy = "fastest" /\ healthy_nodes # <<>> =>
               LET primary == calls'[c].urls[1]
               IN  ~(/\ ~hist[primary].ever_success
                     /\ \E u \in HealthySet(nodes) : hist[u].ever_success)]_vars

-----------------------------------------------------------------------------
(* NodeSelector: strategies and the shape of the ordered list *)

\* The place of endpoint u in the configured list.
Position(u) == CHOOSE i \in 1..Len(node_urls) : node_urls[i] = u

\* C8: under "fastest" a selector call that finds a healthy record makes
\* primary the healthy endpoint with the smallest response_time_ms, and
\* among healthy endpoints with that smallest value the earliest in
\* configured order.
C8_FastestPrimary ==
    [][\A c \in DOMAIN calls :
           Selects(c) /\ load_balance_strategy = "fastest" /\ healthy_nodes # <<>> =>
               LET primary == calls'[c].urls[1]
               IN  /\ primary \in HealthySet(nodes)
                   /\ \A u \in HealthySet(nodes) :
                          \/ nodes[primary].response_time_ms < nodes[u].response_time_ms
                          \/ /\ nodes[primary].response_time_ms = nodes[u].response_time_ms
                             /\ Position(primary) <= Position(u)]_vars

\* Latencies [50, 10, 30] for [A, B, C], all healthy: the list starts with B.
C8_Witness ==
    /\ load_balance_strategy = "fastest"
    /\ \A u \in DOMAIN nodes : nodes[u].is_healthy
    /\ nodes["A"].response_time_ms = 50
    /\ nodes["B"].response_time_ms = 10
    /\ nodes["C"].response_time_ms = 30
    /\ \E c \in DOMAIN calls : calls[c].pc = "await" /\ calls[c].urls[1] = "B"

C9_Cycle ==
    LET n == Len(healthy_nodes)
    IN  \A i, j \in DOMAIN picked :
            i < j =>
                /\ picked[i] \in HealthySet(nodes)
                /\ picked[j] \in HealthySet(nodes)
                /\ j - i < n => picked[i] # picked[j]
                /\ j - i = n => picked[i] = picked[j]

C9_PickedIsPrimary ==
    \A c \in DOMAIN calls :
        Selects(c) /\ load_balance_strategy = "round_robin" /\ healthy_nodes # <<>> =>
            /\ picked' # <<>>
            /\ picked'[Len(picked')] = calls'[c].urls[1]

\* C9: under "round_robin", among the primaries of the selector calls made
\* since the healthy set (N members) last changed, any N consecutive ones
\* are N different healthy endpoints, so each healthy endpoint exactly once,
\* and the call N places after a call repeats its primary; with N = 2 the
\* primaries alternate.
C9_RoundRobinCycles == []C9_Cycle /\ [][C9_PickedIsPrimary]_vars

\* Three healthy endpoints: four consecutive calls pick B, C, A and B again.
C9_Witness ==
    /\ load_balance_strategy = "round_robin"
    /\ Len(healthy_nodes) = 3
    /\ picked = <<"B", "C", "A", "B">>

\* C10: for every strategy, a selector call that finds a healthy record
\* produces a permutation of the configured endpoints whose first element
\* is healthy and whose remaining elements are the other healthy endpoints
\* in configured order followed by the unhealthy ones in configured order.
C10_OrderedListShape ==
    [][\A c \in DOMAIN calls :
           Selects(c) /\ healthy_nodes # <<>> =>
               LET urls == calls'[c].urls
               IN  /\ Len(urls) = Len(node_urls)
                   /\ Range(urls) = Range(node_urls)
                   /\ nodes[urls[1]].is_healthy
                   /\ \A i, j \in 2..Len(urls) :
                          i < j =>
                              \/ nodes[urls[i]].is_healthy /\ ~nodes[urls[j]].is_healthy
                              \/ /\ nodes[urls[i]].is_healthy = nodes[urls[j]].is_healthy
                                 /\ Position(urls[i]) < Position(urls[j])]_vars

\* "random" drew the healthy C; the healthy A follows, the unhealthy B is last.
C10_Witness ==
    /\ load_balance_strategy = "random"
    /\ nodes["A"].is_healthy /\ ~nodes["B"].is_healthy /\ nodes["C"].is_healthy
    /\ \E c \in DOMAIN calls : calls[c].pc = "await" /\ calls[c].urls = <<"C", "A", "B">>

-----------------------------------------------------------------------------
(* Configuration and lifecycle *)

\* C11: a client configured with no endpoint does not get past
\* construction: __aenter__ never returns for it, so it is never started
\* (nor stopped).
C11_RefusesBadConfiguration ==
    node_urls = <<>> =>
        lifecycle \notin {"running", "exiting", "closed"}

\* C12: a client whose strategy name is none of round_robin, fastest and
\* random is constructed and started like any other, and each of its
\* selector calls that finds a healthy record makes primary the healthy
\* endpoint that comes first in configured order.
C12_UnrecognizedPicksFirstHealthy ==
    [][\A c \in DOMAIN calls :
           (/\ Selects(c)
            /\ load_balance_strategy \notin {"round_robin", "fastest", "random"}
            /\ healthy_nodes # <<>>) =>
               LET primary == calls'[c].urls[1]
               IN  /\ nodes[primary].is_healthy
                   /\ \A u \in HealthySet(nodes) : Position(primary) <= Position(u)]_vars

\* Started with an unrecognized name; A is unhealthy, so B is the primary.
C12_Witness ==
    /\ load_balance_strategy = "first_healthy"
    /\ lifecycle = "running"
    /\ ~nodes["A"].is_healthy /\ nodes["B"].is_healthy
    /\ \E c \in DOMAIN calls : calls[c].pc = "await" /\ calls[c].urls[1] = "B"

C13_OneRecordPerEndpoint ==
    /\ DOMAIN nodes = Range(node_urls)
    /\ \A u \in DOMAIN nodes : nodes[u].url = u

C13_RecordsStay ==
    /\ node_urls' = node_urls
    /\ DOMAIN nodes' = DOMAIN nodes
    /\ \A u \in DOMAIN nodes : nodes'[u].url = nodes[u].url

\* C13: from construction on, through start, probe rounds, requests and
\* stop, the records are exactly one per configured endpoint, each keyed by
\* and carrying its endpoint; no step adds or removes a record or changes a
\* record's endpoint.
C13_RecordsAreTheEndpoints == []C13_OneRecordPerEndpoint /\ [][C13_RecordsStay]_vars

\* The client was started, probed, served a failed request and was stopped.
C13_Witness ==
    /\ lifecycle = "closed"
    /\ \A u \in DOMAIN nodes : hist[u].probed /\ nodes[u].consecutive_failures > 0
    /\ \E c \in DOMAIN calls : calls[c].pc = "raised"

\* C14: once __aenter__ has returned, a probe of every configured endpoint
\* has completed (and applied a success or a failure transition to its
\* record); and the monitor task does not exist, so its first sleep has not
\* begun, until then.
C14_ProbedBeforeStarted ==
    /\ lifecycle \in {"running", "exiting", "closed"} =>
           \A u \in DOMAIN nodes : hist[u].probed /\ hist[u].last # "none"
    /\ health_check_task # "None" =>
           /\ lifecycle \in {"running", "exiting", "closed"}
           /\ \A u \in DOMAIN nodes : hist[u].probed

\* __aenter__ has just returned: the monitor sleeps for the first time, one
\* initial probe succeeded and the other failed.
C14_Witness ==
    /\ lifecycle = "running"
    /\ health_check_task = "sleep"
    /\ hist["A"].last = "success" /\ hist["A"].probed
    /\ hist["B"].last = "failure" /\ hist["B"].streak = 1 /\ hist["B"].probed
    /\ \A c \in DOMAIN calls : calls[c].pc = "idle"

-----------------------------------------------------------------------------
(* HealthMonitor: probes and stop *)

\* The step completes the probe of endpoint u.
ProbeCompleted(u) ==
    u \in probes /\ probes' = probes \ {u} /\ lifecycle' = lifecycle

\* C15: a probe of endpoint u that completes applies one transition to u's
\* record, either the success transition or the failure transition on the
\* record as it was, changes no other record, and leaves the round (the
\* other probes in flight) and the monitor task as they were.
C15_ProbeAppliesOneTransition ==
    [][\A u \in DOMAIN nodes :
           ProbeCompleted(u) =>
               /\ \A v \in DOMAIN nodes : v # u => nodes'[v] = nodes[v]
               /\ \/ nodes'[u] = mark_failure(nodes[u], nodes'[u].last_error)
                  \/ nodes'[u] = mark_success(nodes[u], nodes'[u].response_time_ms,
                                              nodes'[u].chain_height)
               /\ health_check_task' = health_check_task]_vars

C16_MonitorEnded ==
    lifecycle = "closed" => health_check_task = "cancelled" /\ probes = {}

C16_NothingAfterStop ==
    lifecycle = "closed" =>
        /\ probes' = {}
        /\ health_check_task' = "cancelled"
        /\ \A u \in DOMAIN nodes : hist'[u].probed = hist[u].probed
        /\ nodes' # nodes => \E c \in DOMAIN calls : calls'[c] # calls[c]

\* C16: __aexit__, once called on a started client (its monitor asleep or
\* with a round in flight), returns; and when it has returned the monitor
\* task has ended and no probe is in flight, and from then on no round
\* starts, no probe completes and a record changes only in a step of a
\* caller's _request.
C16_StopEndsMonitor ==
    /\ []C16_MonitorEnded
    /\ [][C16_NothingAfterStop]_vars
    /\ (lifecycle = "exiting" ~> lifecycle = "closed")

\* Stopped while a round was in flight: its probe of B was abandoned.
C16_Witness ==
    /\ lifecycle = "closed"
    /\ health_check_task = "cancelled"
    /\ hist["B"].abandoned /\ ~hist["A"].abandoned

\* C17: in no state is the transport released while the monitor task is
\* asleep or in a round, or while a probe is in flight; the transport is
\* open from the start of __aenter__ until the monitor has been cancelled.
C17_MonitorStopsBeforeTransport ==
    /\ client = "closed" => health_check_task = "cancelled" /\ probes = {}
    /\ (health_check_task \in {"sleep", "round"} \/ probes # {}) => client = "open"

\* __aexit__ is between its two halves: the monitor is cancelled, the
\* transport is still open.
C17_Witness ==
    /\ lifecycle = "exiting"
    /\ health_check_task = "cancelled"
    /\ client = "open"
    /\ \E u \in DOMAIN hist : hist[u].abandoned

-----------------------------------------------------------------------------
(* ResilientRequestExecutor: failed attempts and termination *)

\* C19: a request attempt that fails, whatever the cause, applies the
\* failure transition to the record as it was before the attempt completed
\* (consecutive_failures one more, no other field of a success transition).
C19_FailedAttemptOnlyFails ==
    [][\A c \in DOMAIN calls :
           (Attempted(c) /\ Len(calls'[c].log) = calls[c].idx) =>
               LET i == calls[c].idx
                   u == calls[c].urls[i]
                   attempt == calls'[c].log[i]
               IN  attempt.outcome # "ok" =>
                       nodes'[u] = mark_failure(nodes[u], attempt.error)]_vars

\* C18: with one endpoint that always fails and one that always succeeds,
\* concurrent requests under any strategy and interleaving never raise: a
\* request that has ended returned the response of the succeeding endpoint,
\* and one still running has the succeeding endpoint at or ahead of its
\* position; meanwhile the failing endpoint's consecutive_failures is never
\* negative and its record is unhealthy exactly when it is at least 3.
C18_AllRequestsSucceed ==
    /\ \A c \in DOMAIN calls :
           LET call == calls[c]
           IN  /\ call.pc # "raised"
               /\ call.pc = "returned" =>
                      call.result \in Range(node_urls) \ {FailingNode}
               /\ call.pc = "await" =>
                      \E i \in call.idx..Len(call.urls) : call.urls[i] # FailingNode
    /\ nodes[FailingNode].consecutive_failures >= 0
    /\ ~nodes[FailingNode].is_healthy <=>
           nodes[FailingNode].consecutive_failures >= FailureThreshold

\* Three requests at once: one has failed over and returned, one awaits the
\* failing endpoint, one awaits the other; the failing endpoint is unhealthy.
C18_Witness ==
    /\ ~nodes[FailingNode].is_healthy
    /\ \E c \in DOMAIN calls :
           /\ calls[c].pc = "returned"
           /\ Len(calls[c].log) = 2
           /\ calls[c].log[1].url = FailingNode
    /\ \E c \in DOMAIN calls : AwaitsOn(c, TRUE)
    /\ \E c \in DOMAIN calls : AwaitsOn(c, FALSE)

C20_Progress ==
    \A c \in DOMAIN calls :
        Attempted(c) =>
            \/ calls'[c].pc \in {"returned", "raised"}
            \/ /\ calls'[c].pc = "await"
               /\ calls'[c].idx = calls[c].idx + 1
               /\ calls'[c].idx <= Len(calls[c].urls)
               /\ calls'[c].urls = calls[c].urls

C20_OneOutcome ==
    \A c \in DOMAIN calls :
        LET call == calls[c]
        IN  /\ call.pc \in {"idle", "await"} => call.result = "None"
            /\ call.pc = "returned" => call.result \in Range(node_urls)
            /\ call.pc = "raised" =>
                    call.result \in Errors \cup {"json", "no_client", "closed"}

\* C20: a _request whose network attempts all complete terminates, and it
\* terminates either returning one response (that of the endpoint whose
\* attempt succeeded) or raising one error; until then it has no outcome.
\* Each completed attempt ends the call or moves it one position on in its
\* fixed, finite list.
C20_RequestTerminates ==
    /\ []C20_OneOutcome
    /\ [][C20_Progress]_vars
    /\ (calls["c1"].pc = "await" ~> calls["c1"].pc \in {"returned", "raised"})

\* A request that failed over once and then returned.
C20_Witness ==
    /\ calls["c1"].pc = "returned"
    /\ Len(calls["c1"].log) = 2
    /\ calls["c1"].log[1].outcome = "bad_json"
    /\ calls["c1"].result = calls["c1"].urls[2]

-----------------------------------------------------------------------------
(* Status reads *)

\* The step is a status read of caller c.
Reads(c) == calls'[c].pc = "status" /\ calls'[c].idx = calls[c].idx + 1

C21_ReadChangesNothing ==
    \A c \in DOMAIN calls :
        Reads(c) =>
            /\ UNCHANGED <<orphans, rpc, node_urls, load_balance_strategy, nodes, current_index,
                           client, health_check_task, probes, lifecycle>>
            /\ \A d \in DOMAIN calls : d # c => calls'[d] = calls[d]
            /\ (/\ calls[c].pc = "status"
                /\ calls[c].result.nodes = get_nodes_status) =>
                   calls'[c].result = calls[c].result

C21_Snapshot ==
    \A c \in DOMAIN calls :
        calls[c].pc = "status" =>
            LET status == calls[c].result.nodes
            IN  /\ Len(status) = Len(node_urls)
                /\ \A i \in 1..Len(status) : status[i].url = node_urls[i]
                /\ calls[c].result.healthy_count =
                       Cardinality({i \in 1..Len(status) : status[i].is_healthy})

\* C21: a status read (get_nodes_status with get_healthy_node_count)
\* changes nothing of the client; a read made while the records are as the
\* caller's previous read reported them (so any read that directly follows
\* one) returns what that one returned; the snapshot has one
\* entry per configured endpoint in configured order, and the healthy count
\* is the number of its entries whose is_healthy is true.
C21_StatusReads == []C21_Snapshot /\ [][C21_ReadChangesNothing]_vars

\* Two reads in a row; the snapshot shows A unhealthy and B healthy.
C21_Witness ==
    /\ calls["c1"].pc = "status"
    /\ calls["c1"].idx = 2
    /\ ~calls["c1"].result.nodes[1].is_healthy
    /\ calls["c1"].result.nodes[2].is_healthy
    /\ calls["c1"].result.healthy_count = 1

-----------------------------------------------------------------------------
(* RPCHandler.handle *)

\* C22: handle never raises; the response it returns carries the request's
\* id; for a method outside the routing table it carries error code -32601
\* and no client call was made; when the routed method raised it carries
\* error code -32000; otherwise it carries a result and no error.
C22_HandleAlwaysResponds ==
    /\ rpc.pc # "raised"
    /\ rpc.pc = "responded" =>
           /\ rpc.response.id = rpc.id
           /\ rpc.method \notin RoutedMethods =>
                  /\ rpc.response.error # NoError
                  /\ rpc.response.error.code = MethodNotFound
                  /\ rpc.response.result = "None"
                  /\ rpc.client_calls = 0
           /\ (rpc.method \in RoutedMethods /\ rpc.method_outcome = "raised") =>
                  /\ rpc.response.error # NoError
                  /\ rpc.response.error.code = ServerError
                  /\ rpc.response.result = "None"
           /\ (rpc.method \in RoutedMethods /\ rpc.method_outcome # "raised") =>
                  /\ rpc.response.error = NoError
                  /\ rpc.response.result # "None"

-----------------------------------------------------------------------------
(* Outcomes of probes and request attempts *)

\* The step completes a probe of u as a success / as a failure.
ProbeOutcome(u, ok) ==
    ProbeCompleted(u) /\ (hist'[u].last = "success") = ok

\* The step completes one request attempt on u as a success / as a failure.
AttemptOutcome(u, ok) ==
    \E c \in DOMAIN calls :
        /\ Attempted(c)
        /\ Len(calls'[c].log) = calls[c].idx
        /\ calls[c].urls[calls[c].idx] = u
        /\ (calls'[c].log[calls[c].idx].outcome = "ok") = ok

\* C23: every failure outcome on a node, from a probe or from a request
\* attempt of any caller, adds one to the node's consecutive_failures as the
\* previous outcome left it (so three of them with no success in between,
\* in any interleaving, leave the node unhealthy), and every success
\* outcome from either source sets it to 0 and the node healthy.
C23_OutcomesAccumulate ==
    [][\A u \in DOMAIN nodes :
           /\ (ProbeOutcome(u, FALSE) \/ AttemptOutcome(u, FALSE)) =>
                  /\ nodes'[u].consecutive_failures = nodes[u].consecutive_failures + 1
                  /\ nodes'[u].consecutive_failures >= FailureThreshold =>
                         ~nodes'[u].is_healthy
           /\ (ProbeOutcome(u, TRUE) \/ AttemptOutcome(u, TRUE)) =>
                  /\ nodes'[u].consecutive_failures = 0
                  /\ nodes'[u].is_healthy]_vars

-----------------------------------------------------------------------------
(* HealthMonitor: recovery and recurrence *)

C24_SuccessHeals ==
    \A u \in DOMAIN nodes :
        (ProbeOutcome(u, TRUE) \/ AttemptOutcome(u, TRUE)) => nodes'[u].is_healthy

C24_ProbesSucceed(u) == ProbeCompleted(u) => hist'[u].last = "success"

C24_Recovers(u) ==
    <>[][C24_ProbesSucceed(u)]_vars =>
        []((lifecycle = "running" /\ ~nodes[u].is_healthy) => <>nodes[u].is_healthy)

\* C24: a probe or a request attempt that succeeds on a node leaves it
\* healthy, also when it was unhealthy; and in a running client whose
\* monitor is scheduled fairly, if from some point on every probe of a node
\* succeeds, then whenever that node is unhealthy it is healthy again later.
C24_UnhealthyNotAbsorbing ==
    /\ [][C24_SuccessHeals]_vars
    /\ C24_Recovers("A")
    /\ C24_Recovers("B")

\* A was unhealthy and a probe of the running monitor's round restored it.
C24_Witness ==
    /\ lifecycle = "running"
    /\ health_check_task = "round"
    /\ hist["A"].last = "success" /\ ~hist["A"].was_healthy /\ nodes["A"].is_healthy
    /\ "A" \notin probes /\ "B" \in probes

C25_LoopAlive ==
    lifecycle = "running" => health_check_task \in {"sleep", "round"}

C25_ErrorKeepsLoop ==
    \A u \in DOMAIN nodes :
        ProbeOutcome(u, FALSE) => health_check_task' = health_check_task

\* C25: in a started client that is not stopped the monitor task is always
\* asleep or in a round; a probe that fails leaves it so; every sleep is
\* followed by a round and every round by a sleep, forever; and every
\* endpoint's probe is started and completed again and again.
C25_MonitorKeepsRunning ==
    /\ []C25_LoopAlive
    /\ [][C25_ErrorKeepsLoop]_vars
    /\ [](lifecycle = "running" => <>(health_check_task = "round"))
    /\ [](lifecycle = "running" => <>(health_check_task = "sleep"))
    /\ \A u \in Range(Urls2) :
           /\ [](lifecycle = "running" => <>(health_check_task = "round" /\ u \in probes))
           /\ [](u \in probes => <>(u \notin probes /\ hist[u].probed))

\* The monitor is in a round after a round in which a probe failed.
C25_Witness ==
    /\ lifecycle = "running"
    /\ health_check_task = "round"
    /\ probes = {"A", "B"}
    /\ hist["B"].last = "failure" /\ hist["B"].streak = 2
    /\ hist["A"].last = "success"

C26_RoundStart ==
    (health_check_task = "sleep" /\ health_check_task' = "round") =>
        /\ probes = {}
        /\ probes' = Range(node_urls)

C26_RoundShape ==
    /\ health_check_task = "sleep" => probes = {}
    /\ probes # {} => (lifecycle = "entering" \/ health_check_task = "round")
    /\ \A u \in probes : ENABLED ProbeSucceeds(u, 10, DefaultChainHeight)

\* C26: the monitor starts a round only when no probe is in flight, and the
\* round puts one probe of every endpoint in flight at once; probes are in
\* flight only within a round (or the initial round of __aenter__), and each
\* probe in flight can complete whether or not the others have.
C26_RoundsDoNotOverlap == []C26_RoundShape /\ [][C26_RoundStart]_vars

\* In a round of the monitor the probe of B has completed while the probe
\* of A is still in flight.
C26_Witness ==
    /\ health_check_task = "round"
    /\ probes = {"A"}
    /\ hist["B"].probed /\ hist["A"].probed

-----------------------------------------------------------------------------
(* The list of a request in flight; frame conditions *)

C27_ListKept ==
    \A c \in DOMAIN calls :
        calls[c].pc = "await" =>
            /\ calls'[c].pc # "idle"
            /\ calls'[c].urls = calls[c].urls
            /\ \A i \in 1..Len(calls'[c].log) : calls'[c].log[i].url = calls[c].urls[i]

\* C27: from the moment a _request has its ordered list, no step of a probe,
\* of another request or of its own changes that list, whatever happens to
\* the records meanwhile, and the endpoints it attempts are the elements of
\* that list in that order.
C27_ListFixedAtStart == [][C27_ListKept]_vars

\* Two requests in flight hold different lists; A has become unhealthy
\* since, and c1 is still on its way through a list that starts with A.
C27_Witness ==
    /\ calls["c1"].pc = "await" /\ calls["c1"].urls = <<"A", "B">> /\ calls["c1"].idx = 2
    /\ calls["c2"].pc = "await" /\ calls["c2"].urls = <<"B", "A">>
    /\ ~nodes["A"].is_healthy /\ nodes["B"].is_healthy
    /\ get_ordered_nodes(1) # calls["c1"].urls

\* C28: a selector call changes no record; it sets the cursor to
\* (cursor + 1) mod the number of healthy records when the strategy is
\* round_robin and some record is healthy, and leaves the cursor as it is
\* in every other case.
C28_SelectionFrame ==
    [][\A c \in DOMAIN calls :
           Selects(c) =>
               /\ nodes' = nodes
               /\ IF load_balance_strategy = "round_robin" /\ healthy_nodes # <<>>
                  THEN current_index' = (current_index + 1) % Len(healthy_nodes)
                  ELSE current_index' = current_index]_vars

\* Round-robin over three healthy records moved the cursor from 0 to 2.
C28_Witness ==
    /\ load_balance_strategy = "round_robin"
    /\ Len(healthy_nodes) = 3
    /\ picked = <<"B", "C">>
    /\ current_index = 2

\* C29: a failure outcome on a node leaves its response_time_ms and
\* chain_height as they were, and response_time_ms changes only in a step
\* that is a successful probe or request attempt on that node (so it is
\* always the latency of the most recent success).
C29_LatencyOfLastSuccess ==
    [][\A u \in DOMAIN nodes :
           /\ (ProbeOutcome(u, FALSE) \/ AttemptOutcome(u, FALSE)) =>
                  /\ nodes'[u].response_time_ms = nodes[u].response_time_ms
                  /\ nodes'[u].chain_height = nodes[u].chain_height
           /\ nodes'[u].response_time_ms # nodes[u].response_time_ms =>
                  (ProbeOutcome(u, TRUE) \/ AttemptOutcome(u, TRUE))]_vars

\* C30: whatever height h the node reports in the reply of a probe in
\* flight, the success transition of that probe leaves chain_height = h,
\* also when h is below the stored value or 0.
C30_StoresReportedHeight ==
    \A u \in probes : \A t \in Latencies, h \in Heights :
        mark_success(nodes[u], t, h).chain_height = h

-----------------------------------------------------------------------------
(* last_error *)

C31_Cleared ==
    \A u \in DOMAIN nodes :
        nodes[u].consecutive_failures = 0 => nodes[u].last_error = ""

C31_Marks ==
    \A u \in DOMAIN nodes :
        /\ (ProbeOutcome(u, TRUE) \/ AttemptOutcome(u, TRUE)) =>
               nodes'[u].last_error = ""
        /\ ProbeOutcome(u, FALSE) =>
               nodes'[u].last_error \in Errors \cup {"type"}
        /\ \A c \in DOMAIN calls :
               Attempted(c) =>
                   \A i \in (Len(calls[c].log) + 1)..Len(calls'[c].log) :
                       LET attempt == calls'[c].log[i]
                           later == {j \in (i + 1)..Len(calls'[c].log) :
                                        calls'[c].log[j].url = u}
                       IN  /\ attempt.outcome # "ok" /\ attempt.url = u /\ later = {} =>
                                  nodes'[u].last_error = attempt.error
                           /\ attempt.outcome # "ok" => attempt.error # ""

\* C31: a step that is a success outcome on a record leaves its last_error
\* empty, a step that is a failure outcome leaves in last_error the
\* description of that failure (never empty here; of the last one when the
\* step fails several attempts on the record at once), and in every reachable
\* state a record with consecutive_failures = 0 has an empty last_error.
C31_LastErrorFollowsOutcome == []C31_Cleared /\ [][C31_Marks]_vars

\* A failed once and was cleared by a success; B holds the description of
\* its last failure.
C31_Witness ==
    /\ hist["A"].last = "success" /\ hist["A"].probed
    /\ nodes["A"].last_error = "" /\ nodes["A"].response_time_ms = 10
    /\ hist["B"].last = "failure" /\ hist["B"].ever_success
    /\ nodes["B"].consecutive_failures = 2 /\ nodes["B"].last_error = "timeout"

-----------------------------------------------------------------------------
(* Stop and the requests in flight *)

\* The step is one of __aexit__.
Stops == lifecycle' # lifecycle /\ lifecycle' \in {"exiting", "closed"}

C32_StopLeavesCalls == Stops => calls' = calls

C32_StopDoesNotWait ==
    /\ lifecycle = "running" => ENABLED AExitCancel
    /\ lifecycle = "exiting" => ENABLED AExitClose

\* C32: __aexit__ can take each of its steps whatever requests are in
\* flight (it does not wait for them), its steps change no request (it
\* cancels none), and a request in flight when the transport has been
\* released still ends, returning a value or raising an error.
C32_StopLeavesRequestsAlone ==
    /\ []C32_StopDoesNotWait
    /\ [][C32_StopLeavesCalls]_vars
    /\ ((lifecycle = "closed" /\ calls["c1"].pc = "await") ~>
            (lifecycle = "closed" /\ calls["c1"].pc \in {"returned", "raised"}))

\* The first attempt of c1 was in flight across the stop: it failed when
\* the transport was already closed, and the call raised after the stop.
C32_Witness ==
    /\ lifecycle = "closed"
    /\ calls["c1"].pc = "raised"
    /\ Len(calls["c1"].log) = 2
    /\ calls["c1"].log[1].error = "timeout"
    /\ calls["c1"].log[2].error = "closed"

-----------------------------------------------------------------------------
(* Start called twice *)

\* The monitor loops of the client that are running.
active_monitors == orphans + (IF monitor_running THEN 1 ELSE 0)

\* C33: at most one monitor loop of the client is running in any state, and
\* none is once __aexit__ has returned, also when __aenter__ was called a
\* second time before __aexit__.
C33_NoMonitorLeaked ==
    /\ active_monitors <= 1
    /\ lifecycle = "closed" => active_monitors = 0

-----------------------------------------------------------------------------
(* Round-robin while the healthy set changes *)

\* C34: under "round_robin", whatever probes, attempts and selector calls
\* came before (the cursor may be at or beyond the number of healthy
\* records), a selector call that finds a healthy record leaves the cursor
\* below the number of healthy records and its primary is the healthy
\* record at that position, healthy in the state the call reads.
C34_RoundRobinStaysInRange ==
    [][\A c \in DOMAIN calls :
           Selects(c) /\ load_balance_strategy = "round_robin" /\ healthy_nodes # <<>> =>
               /\ current_index' \in 0..(Len(healthy_nodes) - 1)
               /\ calls'[c].urls[1] = healthy_nodes[current_index' + 1]
               /\ nodes[calls'[c].urls[1]].is_healthy]_vars

\* A became unhealthy through the failed attempts of three earlier calls
\* (no probe of A has completed); the call now in flight was selected from
\* the healthy set that is left, and its primary is B.
C34_Witness ==
    /\ load_balance_strategy = "round_robin"
    /\ ~hist["A"].probed /\ hist["A"].streak = 3 /\ ~nodes["A"].is_healthy
    /\ nodes["B"].is_healthy
    /\ picked = <<"B">>
    /\ current_index = 0
    /\ calls["c1"].pc = "await" /\ calls["c1"].urls = <<"B", "A">> /\ calls["c1"].idx = 1

\* The request of c1 in flight was selected with u as its primary.
Primary(u) == calls["c1"].pc = "await" /\ calls["c1"].urls[1] = u

\* C35: under "round_robin" with selector calls made again and again, an
\* endpoint that is healthy in every state is the primary of a call again
\* and again, whatever the other records do.
C35_NoStarvation ==
    \A u \in Range(Urls3) :
        ([]nodes[u].is_healthy /\ []<>(calls["c1"].pc = "await")) => []<>Primary(u)

-----------------------------------------------------------------------------
(* Requests without a transport *)

\* C36: a _request issued while self._client is None (before __aenter__) or
\* closed (after __aexit__) changes no health record.
C36_NoTransportNoMarks ==
    [][\A c \in DOMAIN calls :
           Selects(c) /\ client # "open" => nodes' = nodes]_vars

====
